---- MODULE Spec2Model ----
(***************************************************************************)
(* SqlAlchemyStore (mlflow/store/sqlalchemy_store.py): the tracking store  *)
(* over one long-lived SQLAlchemy session.                                 *)
(*                                                                         *)
(* db    the committed rows of the five tables                             *)
(* tx    the rows as the session's open transaction sees them (flushed,    *)
(*       not yet committed); equal to db after a commit or a rollback      *)
(* pend  the session's unit of work: objects added and attributes set      *)
(*       that no flush has written yet                                     *)
(* sess  "active", or "inactive" once a flush has failed and no rollback   *)
(*       has been issued: every later query or commit then raises          *)
(* uid   the number of run ids generated so far (uuid4 never repeats)      *)
(* th    per caller: the call in progress, its position, its outcome, and   *)
(*       the object the call has made (x: the generated id it carries;     *)
(*       obj: "new" while the session holds it uncommitted, "persistent"   *)
(*       once committed, "none" when the session does not hold it)         *)
(***************************************************************************)
EXTENDS Integers, Sequences, FiniteSets, TLC

VARIABLES db, tx, pend, sess, uid, th

vars == <<db, tx, pend, sess, uid, th>>

----------------------------------------------------------------------------
(* Bounds of the model.                                                    *)

MaxExps == 2
MaxRuns == 1
MaxTags == 1
NumKeys == 1
NumVals == 2
NumTs == 2
MaxIds == 2

Names == {"a", "b"}
Locs == {"s3"}
Keys == 1..NumKeys
Vals == 1..NumVals
Ts == 1..NumTs
ExpIds == 1..MaxExps
RunIds == 1..MaxRuns
Threads == {"t1", "t2"}
T0 == "t1"

(* LifecycleStage, ViewType, RunStatus as the store uses them.             *)
ACTIVE == "active"
DELETED == "deleted"
ViewTypes == {"ACTIVE_ONLY", "DELETED_ONLY", "ALL"}
Statuses == {"FINISHED"}

view_type_to_stages(view_type) ==
    CASE view_type = "ACTIVE_ONLY" -> {ACTIVE}
      [] view_type = "DELETED_ONLY" -> {DELETED}
      [] OTHER -> {ACTIVE, DELETED}

----------------------------------------------------------------------------
(* Outcomes of a call: a returned value, an MlflowException with its error *)
(* code, or a raw SQLAlchemy exception that the store let through.         *)

NoOut == [exc |-> "none", code |-> "", msg |-> "", old |-> 0, new |-> 0, val |-> 0]

Ret(v) == [NoOut EXCEPT !.val = v]

MlflowException(msg, code) == [NoOut EXCEPT !.exc = "MlflowException", !.code = code, !.msg = msg]

MlflowExceptionVals(msg, code, old, new) ==
    [NoOut EXCEPT !.exc = "MlflowException", !.code = code, !.msg = msg,
                  !.old = old, !.new = new]

Raw(exc) == [NoOut EXCEPT !.exc = exc]

(* MlflowException raised without an error code (lines 155, 160, 205,     *)
(* 246): the exception's default code.                                     *)
INTERNAL_ERROR == "INTERNAL_ERROR"

----------------------------------------------------------------------------
(* The tables.                                                             *)

EmptyTables == [exps |-> {}, runs |-> {}, metrics |-> {}, params |-> {}, tags |-> <<>>]

NoPend == [upd |-> <<>>, ins |-> <<>>]

Idle == [pc |-> "idle", call |-> [op |-> "none"], x |-> 0, obj |-> "none", out |-> NoOut]

St == [db |-> db, tx |-> tx, pend |-> pend, sess |-> sess, uid |-> uid, th |-> th]

ExpOf(tbl, id) == CHOOSE e \in tbl.exps : e.id = id
RunOf(tbl, id) == CHOOSE r \in tbl.runs : r.id = id

----------------------------------------------------------------------------
(* The session.  add() and attribute assignment only record work in pend;  *)
(* flush() writes it inside the open transaction, where the uniqueness     *)
(* constraints of the tables apply; commit() flushes and makes tx durable; *)
(* rollback() discards tx and pend.  Every query flushes first (the        *)
(* sessionmaker of line 23 leaves autoflush at its default).               *)

UpdsOf(upd, tbl, id, col) ==
    SelectSeq(upd, LAMBDA u : u.tbl = tbl /\ u.id = id /\ u.col = col)

RECURSIVE ApplyUpd(_, _, _, _)
ApplyUpd(row, tbl, upd, i) ==
    IF i > Len(upd) THEN row
    ELSE ApplyUpd(IF upd[i].tbl = tbl /\ upd[i].id = row.id
                  THEN [row EXCEPT ![upd[i].col] = upd[i].val]
                  ELSE row, tbl, upd, i + 1)

(* The UPDATE of one experiment row: the unique name is checked against    *)
(* the other rows as they are at that statement.                           *)
UpdateExp(exps, old, new) ==
    IF \E o \in exps : o.id # old.id /\ o.name = new.name
    THEN [ok |-> FALSE, exps |-> exps]
    ELSE [ok |-> TRUE, exps |-> (exps \ {old}) \cup {new}]

(* The UPDATEs of the experiments table, row after row in primary-key      *)
(* order, stopping at the first that fails.                                *)
RECURSIVE UpdateExps(_, _, _)
UpdateExps(u, upd, id) ==
    IF id > MaxExps \/ ~u.ok THEN u
    ELSE IF \E e \in u.exps : e.id = id
    THEN UpdateExps(UpdateExp(u.exps, ExpOf(u, id), ApplyUpd(ExpOf(u, id), "exp", upd, 1)),
                    upd, id + 1)
    ELSE UpdateExps(u, upd, id + 1)

InsOf(ins, tbl) == SelectSeq(ins, LAMBDA e : e.tbl = tbl)

(* INSERTs of rows whose key must be unique: none may repeat a stored key  *)
(* or the key of a row inserted before it in the same flush.               *)
UniqueIns(keys, stored) ==
    /\ \A i \in 1..Len(keys) : keys[i] \notin stored
    /\ \A i, j \in 1..Len(keys) : i < j => keys[i] # keys[j]

(* The uniqueness constraints the store's except clauses answer to:        *)
(* experiments.name, metrics (run, key, timestamp), params (run, key).     *)
ExpKey(e) == e.name
MetricKey(m) == <<m.run, m.key, m.timestamp>>
ParamKey(p) == <<p.run, p.key>>

(* The end of a transaction.  When it is rolled back, the objects added    *)
(* during it are expunged: their callers are left with transient objects   *)
(* that keep the attributes they had, a generated id included.  When it    *)
(* is committed they are persistent.                                       *)
Expunge(ths) ==
    [t \in DOMAIN ths |->
        IF ths[t].obj = "new" THEN [ths[t] EXCEPT !.obj = "none"] ELSE ths[t]]

Persist(ths) ==
    [t \in DOMAIN ths |->
        IF ths[t].obj = "new" THEN [ths[t] EXCEPT !.obj = "persistent"] ELSE ths[t]]

(* The INSERTs of new experiments run in the order of their add(); each    *)
(* one that succeeds puts the generated id on its caller's object.         *)
ExpsInserted(ei, exps) ==
    CHOOSE n \in 0..Len(ei) :
        /\ UniqueIns([i \in 1..n |-> ExpKey(ei[i].row)], {ExpKey(e) : e \in exps})
        /\ (n < Len(ei)
            => ~UniqueIns([i \in 1..(n + 1) |-> ExpKey(ei[i].row)],
                          {ExpKey(e) : e \in exps}))

AssignIds(ths, ei, n, base) ==
    [t \in DOMAIN ths |->
        IF \E i \in 1..n : ei[i].by = t
        THEN [ths[t] EXCEPT !.x = base + (CHOOSE i \in 1..n : ei[i].by = t)]
        ELSE ths[t]]

(* A failed flush rolls the transaction back and leaves the session        *)
(* inactive until someone calls rollback().                                *)
FlushFailed(s) ==
    [s EXCEPT !.tx = s.db, !.pend = NoPend, !.sess = "inactive",
              !.th = Expunge(s.th)]

(* The flush, given the experiments after their UPDATEs (eu) and the       *)
(* pending INSERTs of each table.  A new experiment gets the next id; the  *)
(* caller that added it (by) sees the id on its object.                    *)
FlushRows(s, eu, ei, ri, mi, pi, ti) ==
    IF /\ eu.ok
       /\ UniqueIns([i \in 1..Len(ei) |-> ExpKey(ei[i].row)], {ExpKey(e) : e \in eu.exps})
       /\ UniqueIns([i \in 1..Len(mi) |-> MetricKey(mi[i].row)],
                    {MetricKey(m) : m \in s.tx.metrics})
       /\ UniqueIns([i \in 1..Len(pi) |-> ParamKey(pi[i].row)],
                    {ParamKey(p) : p \in s.tx.params})
    THEN [s |-> [s EXCEPT
                   !.tx = [exps |-> eu.exps \cup
                                    {[ei[i].row EXCEPT !.id = Cardinality(eu.exps) + i] :
                                       i \in 1..Len(ei)},
                           runs |-> {ApplyUpd(r, "run", s.pend.upd, 1) : r \in s.tx.runs}
                                    \cup {ri[i].row : i \in 1..Len(ri)},
                           metrics |-> s.tx.metrics \cup {mi[i].row : i \in 1..Len(mi)},
                           params |-> s.tx.params \cup {pi[i].row : i \in 1..Len(pi)},
                           tags |-> s.tx.tags \o [i \in 1..Len(ti) |-> ti[i].row]],
                   !.pend = NoPend,
                   !.th = AssignIds(s.th, ei, Len(ei), Cardinality(eu.exps))],
          exc |-> "none"]
    ELSE [s |-> FlushFailed([s EXCEPT !.th = AssignIds(s.th, ei,
                                                IF eu.ok THEN ExpsInserted(ei, eu.exps)
                                                ELSE 0,
                                                Cardinality(eu.exps))]),
          exc |-> "IntegrityError"]

Flush(s) ==
    IF s.pend = NoPend THEN [s |-> s, exc |-> "none"]
    ELSE FlushRows(s, UpdateExps([ok |-> TRUE, exps |-> s.tx.exps], s.pend.upd, 1),
                   InsOf(s.pend.ins, "exp"), InsOf(s.pend.ins, "run"),
                   InsOf(s.pend.ins, "metric"), InsOf(s.pend.ins, "param"),
                   InsOf(s.pend.ins, "tag"))

(* session.commit()                                                        *)
Committed(f) ==
    IF f.exc # "none" THEN f
    ELSE [s |-> [f.s EXCEPT !.db = f.s.tx, !.th = Persist(f.s.th)], exc |-> "none"]

Commit(s) ==
    IF s.sess # "active" THEN [s |-> s, exc |-> "InvalidRequestError"]
    ELSE Committed(Flush(s))

(* session.rollback()                                                      *)
Rollback(s) ==
    [s EXCEPT !.tx = s.db, !.pend = NoPend, !.sess = "active",
              !.th = Expunge(s.th)]

(* What precedes the SELECT of every session.query(...) and lazy load.     *)
Autoflush(s) ==
    IF s.sess # "active" THEN [s |-> s, exc |-> "InvalidRequestError"]
    ELSE Flush(s)

(* session.add(obj) of a new object, made by caller t.                     *)
Add(s, t, tbl, row) ==
    [s EXCEPT !.pend.ins = Append(@, [tbl |-> tbl, by |-> t, row |-> row]),
              !.th[t].obj = "new"]

(* obj.col = val on a loaded object.                                       *)
SetAttr(s, tbl, id, col, val) ==
    [s EXCEPT !.pend.upd = Append(@, [tbl |-> tbl, id |-> id, col |-> col, val |-> val])]

(* obj.col of a loaded object: the value assigned in memory if any, else   *)
(* the row's, reloaded through the session when a commit or rollback has   *)
(* expired it.                                                             *)
AttrOf(s, ups, rows, col) ==
    IF Len(ups) > 0 THEN [exc |-> "none", val |-> ups[Len(ups)].val]
    ELSE IF s.sess # "active" THEN [exc |-> "InvalidRequestError", val |-> ""]
    ELSE [exc |-> "none", val |-> (CHOOSE r \in rows : TRUE)[col]]

Attr(s, tbl, id, col) ==
    AttrOf(s, UpdsOf(s.pend.upd, tbl, id, col),
           IF tbl = "exp" THEN {e \in s.tx.exps : e.id = id}
           ELSE {r \in s.tx.runs : r.id = id}, col)

----------------------------------------------------------------------------
(* A caller's position in its call.  Every handler below is the step       *)
(* function of one method of the store: it maps the state and the caller   *)
(* to the state after the caller's next statement.  The pieces named       *)
(* ...With take the result of the statement's session call as a parameter. *)

Begin(s, t, call) ==
    [s EXCEPT !.th[t] = [pc |-> "start", call |-> call, x |-> 0, obj |-> "none",
                         out |-> NoOut]]

Goto(s, t, pc) == [s EXCEPT !.th[t].pc = pc]

Finish(s, t, out) == [s EXCEPT !.th[t].pc = "done", !.th[t].out = out]

(* After a commit r: on, or to the caller's except clause when it has one  *)
(* for IntegrityError, or out of the handler with the exception.           *)
AfterCommit(r, t, next, catches) ==
    IF r.exc = "none" THEN Goto(r.s, t, next)
    ELSE IF catches /\ r.exc = "IntegrityError" THEN Goto(r.s, t, "except")
    ELSE Finish(r.s, t, Raw(r.exc))

(* session.add was the statement before; this is the commit.               *)
_save_to_db(s, t, next) == AfterCommit(Commit(s), t, next, FALSE)

(* After a lookup g: out with its exception, or on.                        *)
AfterLookup(g, t, next) ==
    IF g.out.exc # "none" THEN Finish(g.s, t, g.out) ELSE Goto(g.s, t, next)

(* After a lookup g whose row is the call's result.                        *)
ReturnFound(g, t) ==
    IF g.out.exc # "none" THEN Finish(g.s, t, g.out)
    ELSE Finish(g.s, t, Ret(CHOOSE e \in g.found : TRUE))

(* After a check k that changes nothing: out with its exception, or on.    *)
AfterCheck(k, s, t, next) ==
    IF k.exc # "none" THEN Finish(s, t, k) ELSE Goto(s, t, next)

(* ---- experiments ---- *)

create_experiment(s, t) ==
    CASE s.th[t].pc = "start" ->
           IF s.th[t].call.name = ""
           THEN Finish(s, t, MlflowException("invalid_experiment_name",
                                             "INVALID_PARAMETER_VALUE"))
           ELSE Goto(Add(s, t, "exp", [id |-> 0, name |-> s.th[t].call.name,
                                       stage |-> ACTIVE, loc |-> s.th[t].call.loc]),
                     t, "commit")
      [] s.th[t].pc = "commit" -> AfterCommit(Commit(s), t, "return", TRUE)
      [] s.th[t].pc = "except" ->
           Finish(Rollback(s), t,
                  [MlflowException("experiment_already_exists", "RESOURCE_ALREADY_EXISTS")
                     EXCEPT !.val = s.th[t].call.name])
      [] OTHER ->
           (* experiment.experiment_id: a reload on a committed object,    *)
           (* what the object carries (None, 0 here, when its INSERT never *)
           (* ran) on an expunged one                                      *)
           IF s.th[t].obj = "persistent" /\ s.sess # "active"
           THEN Finish(s, t, Raw("InvalidRequestError"))
           ELSE Finish(s, t, Ret(s.th[t].x))

_list_experiments(tbl, experiments, view_type) ==
    {e \in tbl.exps : /\ e.stage \in view_type_to_stages(view_type)
                      /\ (experiments # {} => e.id \in experiments)}

ListedWith(f, t, view_type) ==
    IF f.exc # "none" THEN Finish(f.s, t, Raw(f.exc))
    ELSE Finish(f.s, t, Ret(_list_experiments(f.s.tx, {}, view_type)))

list_experiments(s, t) == ListedWith(Autoflush(s), t, s.th[t].call.view)

(* The lookup's answer from the rows it found after its autoflush f.       *)
OneOf(f, rows, none, many) ==
    [s |-> f.s,
     found |-> IF f.exc = "none" THEN rows ELSE {},
     out |-> IF f.exc # "none" THEN Raw(f.exc)
             ELSE IF Cardinality(rows) = 0
             THEN MlflowException(none, "RESOURCE_DOES_NOT_EXIST")
             ELSE IF Cardinality(rows) > 1
             THEN MlflowException(many, "INVALID_STATE")
             ELSE NoOut]

ExperimentWith(f, experiment_id, view_type) ==
    OneOf(f, _list_experiments(f.s.tx, {experiment_id}, view_type),
          "no_experiment", "expected_one_experiment")

_get_experiment(s, experiment_id, view_type) ==
    ExperimentWith(Autoflush(s), experiment_id, view_type)

get_experiment(s, t) == ReturnFound(_get_experiment(s, s.th[t].call.id, "ALL"), t)

(* delete_experiment and restore_experiment differ in the view they look   *)
(* the experiment up with and the stage they set.                          *)
SetExperimentStage(s, t, view_type, stage) ==
    CASE s.th[t].pc = "start" ->
           AfterLookup(_get_experiment(s, s.th[t].call.id, view_type), t, "set")
      [] s.th[t].pc = "set" ->
           Goto(SetAttr(s, "exp", s.th[t].call.id, "stage", stage), t, "commit")
      [] OTHER -> _save_to_db(s, t, "done")

delete_experiment(s, t) == SetExperimentStage(s, t, "ACTIVE_ONLY", DELETED)

(* restore_experiment as it would be with delete_experiment's view.        *)
restore_experiment_active_only(s, t) == SetExperimentStage(s, t, "ACTIVE_ONLY", ACTIVE)

restore_experiment(s, t) == SetExperimentStage(s, t, "DELETED_ONLY", ACTIVE)

RenameCheck(a) ==
    IF a.exc # "none" THEN Raw(a.exc)
    ELSE IF a.val # ACTIVE THEN MlflowException("cannot_rename_non_active", "INVALID_STATE")
    ELSE NoOut

rename_experiment(s, t) ==
    CASE s.th[t].pc = "start" ->
           AfterLookup(_get_experiment(s, s.th[t].call.id, "ALL"), t, "check")
      [] s.th[t].pc = "check" ->
           AfterCheck(RenameCheck(Attr(s, "exp", s.th[t].call.id, "stage")), s, t, "set")
      [] s.th[t].pc = "set" ->
           Goto(SetAttr(s, "exp", s.th[t].call.id, "name", s.th[t].call.name), t, "commit")
      [] OTHER -> _save_to_db(s, t, "done")

(* ---- runs ---- *)

MLFLOW_PARENT_RUN_ID == "mlflow.parentRunId"
MLFLOW_RUN_NAME == "mlflow.runName"

(* The tag rows create_run attaches to the new run, in its order.          *)
RunTags(run_uuid, tags, parent_run_id, run_name) ==
    [i \in 1..Len(tags) |-> [run |-> run_uuid, key |-> tags[i].key, value |-> tags[i].value]]
    \o (IF parent_run_id # ""
        THEN <<[run |-> run_uuid, key |-> MLFLOW_PARENT_RUN_ID, value |-> parent_run_id]>>
        ELSE <<>>)
    \o (IF run_name # ""
        THEN <<[run |-> run_uuid, key |-> MLFLOW_RUN_NAME, value |-> run_name]>>
        ELSE <<>>)

RECURSIVE AddAll(_, _, _, _, _)
AddAll(s, t, tbl, rows, i) ==
    IF i > Len(rows) THEN s ELSE AddAll(Add(s, t, tbl, rows[i]), t, tbl, rows, i + 1)

(* get_experiment's entity is a snapshot: its stage is the one found.      *)
ActiveExperimentWith(g, t, next) ==
    IF g.out.exc # "none" THEN Finish(g.s, t, g.out)
    ELSE IF (CHOOSE e \in g.found : TRUE).stage # ACTIVE
    THEN Finish(g.s, t, MlflowException("experiment_must_be_active", "INVALID_STATE"))
    ELSE Goto(g.s, t, next)

(* uuid4, the SqlRun and its tags, session.add_all.                        *)
AddRun(s, t, run_uuid, c) ==
    AddAll(Add([s EXCEPT !.uid = run_uuid, !.th[t].x = run_uuid], t, "run",
               [id |-> run_uuid, exp |-> c.exp, stage |-> ACTIVE,
                status |-> "RUNNING", end |-> 0]),
           t, "tag", RunTags(run_uuid, c.tags, c.parent, c.name), 1)

create_run(s, t) ==
    CASE s.th[t].pc = "start" ->
           ActiveExperimentWith(_get_experiment(s, s.th[t].call.exp, "ALL"), t, "add")
      [] s.th[t].pc = "add" -> Goto(AddRun(s, t, s.uid + 1, s.th[t].call), t, "commit")
      [] s.th[t].pc = "commit" -> _save_to_db(s, t, "return")
      [] OTHER ->
           (* run.to_mlflow_entity(): a reload on a committed object       *)
           IF s.th[t].obj = "persistent" /\ s.sess # "active"
           THEN Finish(s, t, Raw("InvalidRequestError"))
           ELSE Finish(s, t, Ret(s.th[t].x))

RunWith(f, run_uuid) ==
    OneOf(f, {r \in f.s.tx.runs : r.id = run_uuid}, "run_not_found", "expected_one_run")

_get_run(s, run_uuid) == RunWith(Autoflush(s), run_uuid)

(* The exception of either check carries no error code.                    *)
StageCheck(a, stage, msg) ==
    IF a.exc # "none" THEN Raw(a.exc)
    ELSE IF a.val # stage THEN MlflowException(msg, INTERNAL_ERROR)
    ELSE NoOut

(* The check as it would be if it let every stage pass.                    *)
_check_run_is_active_off(s, run_uuid) ==
    StageCheck(Attr(s, "run", run_uuid, "stage"), Attr(s, "run", run_uuid, "stage").val,
               "run_must_be_active")

_check_run_is_active(s, run_uuid) ==
    StageCheck(Attr(s, "run", run_uuid, "stage"), ACTIVE, "run_must_be_active")

_check_run_is_deleted(s, run_uuid) ==
    StageCheck(Attr(s, "run", run_uuid, "stage"), DELETED, "run_must_be_deleted")

(* The two statements every run mutator starts with.                       *)
FetchRun(s, t, next) == AfterLookup(_get_run(s, s.th[t].call.run), t, next)

(* The statement as it would be if the check were left out.                *)
RequireNothing(s, t, next) == Goto(s, t, next)

RequireActive(s, t, next) ==
    AfterCheck(_check_run_is_active(s, s.th[t].call.run), s, t, next)

(* run.to_mlflow_entity().info after the commit                            *)
RunInfoWith(s, t, st, en) ==
    IF st.exc # "none" THEN Finish(s, t, Raw(st.exc))
    ELSE IF en.exc # "none" THEN Finish(s, t, Raw(en.exc))
    ELSE Finish(s, t, Ret([status |-> st.val, end |-> en.val]))

update_run_info(s, t) ==
    CASE s.th[t].pc = "start" -> FetchRun(s, t, "check")
      [] s.th[t].pc = "check" -> RequireActive(s, t, "set_status")
      [] s.th[t].pc = "set_status" ->
           Goto(SetAttr(s, "run", s.th[t].call.run, "status", s.th[t].call.status),
                t, "set_end")
      [] s.th[t].pc = "set_end" ->
           Goto(SetAttr(s, "run", s.th[t].call.run, "end", s.th[t].call.end), t, "commit")
      [] s.th[t].pc = "commit" -> _save_to_db(s, t, "return")
      [] OTHER -> RunInfoWith(s, t, Attr(s, "run", s.th[t].call.run, "status"),
                              Attr(s, "run", s.th[t].call.run, "end"))

get_run(s, t) == ReturnFound(_get_run(s, s.th[t].call.run), t)

restore_run(s, t) ==
    CASE s.th[t].pc = "start" -> FetchRun(s, t, "check")
      [] s.th[t].pc = "check" ->
           AfterCheck(_check_run_is_deleted(s, s.th[t].call.run), s, t, "set")
      [] s.th[t].pc = "set" ->
           Goto(SetAttr(s, "run", s.th[t].call.run, "stage", ACTIVE), t, "commit")
      [] OTHER -> _save_to_db(s, t, "done")

delete_run(s, t) ==
    CASE s.th[t].pc = "start" -> FetchRun(s, t, "check")
      [] s.th[t].pc = "check" -> RequireActive(s, t, "set")
      [] s.th[t].pc = "set" ->
           Goto(SetAttr(s, "run", s.th[t].call.run, "stage", DELETED), t, "commit")
      [] OTHER -> _save_to_db(s, t, "done")

(* ---- metrics, params, tags ---- *)

(* The lookup as it would be if it found nothing.                          *)
LookupNeverFinds(f, t, tbl, row) ==
    IF f.exc = "IntegrityError" THEN Goto(f.s, t, "except")
    ELSE IF f.exc # "none" THEN Finish(f.s, t, Raw(f.exc))
    ELSE Goto(f.s, t, "add")

(* _get_or_create's lookup, after its autoflush f: the filter is on every  *)
(* column given, the value included.                                       *)
LookupWith(f, t, tbl, row) ==
    IF f.exc = "IntegrityError" THEN Goto(f.s, t, "except")
    ELSE IF f.exc # "none" THEN Finish(f.s, t, Raw(f.exc))
    ELSE IF row \in f.s.tx[tbl] THEN Finish(f.s, t, Ret(0))
    ELSE Goto(f.s, t, "add")

(* _get_or_create inside the try block of log_metric and log_param: an     *)
(* IntegrityError of the lookup's autoflush or of the commit goes to the   *)
(* caller's except clause, any other exception leaves the handler.         *)
_get_or_create(s, t, tbl, ins, row) ==
    CASE s.th[t].pc = "lookup" -> LookupWith(Autoflush(s), t, tbl, row)
      [] s.th[t].pc = "add" -> Goto(Add(s, t, ins, row), t, "commit")
      [] OTHER -> AfterCommit(Commit(s), t, "done", TRUE)

(* run.metrics, loaded again after the rollback                            *)
MetricConflictWith(f, t, existing_metric) ==
    IF f.exc # "none" THEN Finish(f.s, t, Raw(f.exc))
    ELSE IF existing_metric = {}
    THEN Finish(f.s, t, MlflowException("log_metric_failed", INTERNAL_ERROR))
    ELSE Finish(f.s, t, MlflowExceptionVals("metric_must_be_unique",
                                            "INVALID_PARAMETER_VALUE",
                                            (CHOOSE m \in existing_metric : TRUE).value,
                                            (CHOOSE m \in existing_metric : TRUE).timestamp))

ExistingMetric(f, c) ==
    {m \in f.s.tx.metrics : m.run = c.run /\ m.key = c.key /\ m.timestamp = c.timestamp}

RereadMetrics(f, t, c) == MetricConflictWith(f, t, ExistingMetric(f, c))

(* log_metric as it would be without its _check_run_is_active.             *)
log_metric_unchecked(s, t) ==
    CASE s.th[t].pc = "start" -> FetchRun(s, t, "lookup")
      [] s.th[t].pc \in {"lookup", "add", "commit"} ->
           _get_or_create(s, t, "metrics", "metric",
                          [run |-> s.th[t].call.run, key |-> s.th[t].call.key,
                           value |-> s.th[t].call.value,
                           timestamp |-> s.th[t].call.timestamp])
      [] s.th[t].pc = "except" -> Goto(Rollback(s), t, "reread")
      [] OTHER -> RereadMetrics(Autoflush(s), t, s.th[t].call)

log_metric(s, t) ==
    CASE s.th[t].pc = "start" -> FetchRun(s, t, "check")
      [] s.th[t].pc = "check" -> RequireActive(s, t, "lookup")
      [] s.th[t].pc \in {"lookup", "add", "commit"} ->
           _get_or_create(s, t, "metrics", "metric",
                          [run |-> s.th[t].call.run, key |-> s.th[t].call.key,
                           value |-> s.th[t].call.value,
                           timestamp |-> s.th[t].call.timestamp])
      [] s.th[t].pc = "except" -> Goto(Rollback(s), t, "reread")
      [] OTHER -> RereadMetrics(Autoflush(s), t, s.th[t].call)

MetricWith(f, t, rows) ==
    IF f.exc # "none" THEN Finish(f.s, t, Raw(f.exc))
    ELSE IF rows = {}
    THEN Finish(f.s, t, MlflowException("metric_does_not_exist", "RESOURCE_DOES_NOT_EXIST"))
    ELSE Finish(f.s, t, Ret(CHOOSE m \in rows : \A o \in rows : o.timestamp <= m.timestamp))

MetricsOf(f, c) == {m \in f.s.tx.metrics : m.run = c.run /\ m.key = c.key}

LatestMetric(f, t, c) == MetricWith(f, t, MetricsOf(f, c))

get_metric(s, t) == LatestMetric(Autoflush(s), t, s.th[t].call)

HistoryWith(f, t, c) ==
    IF f.exc # "none" THEN Finish(f.s, t, Raw(f.exc))
    ELSE Finish(f.s, t, Ret(MetricsOf(f, c)))

get_metric_history(s, t) == HistoryWith(Autoflush(s), t, s.th[t].call)

(* run.params, loaded again after the rollback                             *)
ParamConflictWith(f, t, existing_params, value) ==
    IF f.exc # "none" THEN Finish(f.s, t, Raw(f.exc))
    ELSE IF existing_params = {}
    THEN Finish(f.s, t, MlflowException("log_param_failed", INTERNAL_ERROR))
    ELSE Finish(f.s, t, MlflowExceptionVals("changing_param_value",
                                            "INVALID_PARAMETER_VALUE",
                                            (CHOOSE p \in existing_params : TRUE).value,
                                            value))

ParamsOf(f, c) == {p \in f.s.tx.params : p.run = c.run /\ p.key = c.key}

RereadParams(f, t, c) == ParamConflictWith(f, t, ParamsOf(f, c), c.value)

log_param(s, t) ==
    CASE s.th[t].pc = "start" -> FetchRun(s, t, "check")
      [] s.th[t].pc = "check" -> RequireActive(s, t, "lookup")
      [] s.th[t].pc \in {"lookup", "add", "commit"} ->
           _get_or_create(s, t, "params", "param",
                          [run |-> s.th[t].call.run, key |-> s.th[t].call.key,
                           value |-> s.th[t].call.value])
      [] s.th[t].pc = "except" -> Goto(Rollback(s), t, "reread")
      [] OTHER -> RereadParams(Autoflush(s), t, s.th[t].call)

ParamWith(f, t, rows) ==
    IF f.exc # "none" THEN Finish(f.s, t, Raw(f.exc))
    ELSE IF rows = {}
    THEN Finish(f.s, t, MlflowException("param_does_not_exist", "RESOURCE_DOES_NOT_EXIST"))
    ELSE Finish(f.s, t, Ret(CHOOSE p \in rows : TRUE))

FirstParam(f, t, c) == ParamWith(f, t, ParamsOf(f, c))

get_param(s, t) == FirstParam(Autoflush(s), t, s.th[t].call)

set_tag(s, t) ==
    CASE s.th[t].pc = "start" -> FetchRun(s, t, "check")
      [] s.th[t].pc = "check" -> RequireActive(s, t, "add")
      [] s.th[t].pc = "add" ->
           Goto(Add(s, t, "tag", [run |-> s.th[t].call.run, key |-> s.th[t].call.key,
                                  value |-> s.th[t].call.value]), t, "commit")
      [] OTHER -> _save_to_db(s, t, "done")

(* ---- searches ---- *)

(* The clause evaluator is outside the store: a clause stands for the set  *)
(* of runs it matches.                                                     *)
does_run_match_clause(r, clause) == r.id \in clause

(* _list_runs after its autoflush f: the first experiment with the id, in  *)
(* any stage, and those of its runs whose stage the view has.  Without     *)
(* such an experiment first() is None and exp.runs raises AttributeError.  *)
RunsWith(f, exps, run_view_type) ==
    IF exps = {} THEN [exc |-> "AttributeError", runs |-> {}]
    ELSE [exc |-> "none",
          runs |-> {r \in f.s.tx.runs :
                      /\ r.exp = (CHOOSE e \in exps : TRUE).id
                      /\ r.stage \in view_type_to_stages(run_view_type)}]

_list_runs(f, experiment_id, run_view_type) ==
    RunsWith(f, _list_experiments(f.s.tx, {experiment_id}, "ALL"), run_view_type)

(* search_runs: the runs of each experiment id in turn, then the clauses.  *)
FoundWith(f, t, c, lists) ==
    IF f.exc # "none" THEN Finish(f.s, t, Raw(f.exc))
    ELSE IF \E i \in 1..Len(lists) : lists[i].exc # "none"
    THEN Finish(f.s, t, Raw("AttributeError"))
    ELSE Finish(f.s, t,
                Ret([i \in 1..Len(lists) |->
                       {r \in lists[i].runs :
                          \A j \in 1..Len(c.exprs) :
                              does_run_match_clause(r, c.exprs[j])}]))

SearchWith(f, t, c) ==
    FoundWith(f, t, c, [i \in 1..Len(c.ids) |-> _list_runs(f, c.ids[i], c.view)])

(* With no experiment id the comprehension runs no query: the session is  *)
(* not touched and the result is the empty list.                           *)
search_runs(s, t) ==
    IF s.th[t].call.ids = <<>> THEN Finish(s, t, Ret(<<>>))
    ELSE SearchWith(Autoflush(s), t, s.th[t].call)

InfosWith(f, t, l) ==
    IF f.exc # "none" THEN Finish(f.s, t, Raw(f.exc))
    ELSE IF l.exc # "none" THEN Finish(f.s, t, Raw(l.exc))
    ELSE Finish(f.s, t, Ret(l.runs))

ListInfosWith(f, t, c) == InfosWith(f, t, _list_runs(f, c.exp, c.view))

list_run_infos(s, t) == ListInfosWith(Autoflush(s), t, s.th[t].call)

----------------------------------------------------------------------------
(* Calls.                                                                  *)

Step(s, t) ==
    CASE s.th[t].call.op = "create_experiment" -> create_experiment(s, t)
      [] s.th[t].call.op = "list_experiments" -> list_experiments(s, t)
      [] s.th[t].call.op = "get_experiment" -> get_experiment(s, t)
      [] s.th[t].call.op = "delete_experiment" -> delete_experiment(s, t)
      [] s.th[t].call.op = "restore_experiment" -> restore_experiment(s, t)
      [] s.th[t].call.op = "rename_experiment" -> rename_experiment(s, t)
      [] s.th[t].call.op = "create_run" -> create_run(s, t)
      [] s.th[t].call.op = "update_run_info" -> update_run_info(s, t)
      [] s.th[t].call.op = "get_run" -> get_run(s, t)
      [] s.th[t].call.op = "restore_run" -> restore_run(s, t)
      [] s.th[t].call.op = "delete_run" -> delete_run(s, t)
      [] s.th[t].call.op = "log_metric" -> log_metric(s, t)
      [] s.th[t].call.op = "get_metric" -> get_metric(s, t)
      [] s.th[t].call.op = "get_metric_history" -> get_metric_history(s, t)
      [] s.th[t].call.op = "log_param" -> log_param(s, t)
      [] s.th[t].call.op = "get_param" -> get_param(s, t)
      [] s.th[t].call.op = "set_tag" -> set_tag(s, t)
      [] s.th[t].call.op = "search_runs" -> search_runs(s, t)
      [] OTHER -> list_run_infos(s, t)

(* A call by a caller that no other caller interrupts: its steps, one      *)
(* after the other, to the end.                                            *)
RECURSIVE Run(_, _)
Run(s, t) == IF s.th[t].pc = "done" THEN s ELSE Run(Step(s, t), t)

Exec(s, call) == Run(Begin(s, T0, call), T0)

OutOf(s, call) == Exec(s, call).th[T0].out

----------------------------------------------------------------------------
(* The arguments of the calls.                                             *)

TagInputs == {<<>>, <<[key |-> "k", value |-> "v"]>>}

CreateExperimentCalls ==
    [op : {"create_experiment"}, name : Names \cup {""}, loc : Locs]
ListExperimentsCalls == [op : {"list_experiments"}, view : ViewTypes]
GetExperimentCalls == [op : {"get_experiment"}, id : ExpIds]
DeleteExperimentCalls == [op : {"delete_experiment"}, id : ExpIds]
RestoreExperimentCalls == [op : {"restore_experiment"}, id : ExpIds]
RenameExperimentCalls == [op : {"rename_experiment"}, id : ExpIds, name : Names]
CreateRunCalls ==
    [op : {"create_run"}, exp : ExpIds, tags : TagInputs, parent : {"", "p"},
     name : {"", "n"}]
UpdateRunInfoCalls ==
    [op : {"update_run_info"}, run : RunIds, status : Statuses, end : Ts]
GetRunCalls == [op : {"get_run"}, run : RunIds]
RestoreRunCalls == [op : {"restore_run"}, run : RunIds]
DeleteRunCalls == [op : {"delete_run"}, run : RunIds]
LogMetricCalls ==
    [op : {"log_metric"}, run : RunIds, key : Keys, value : Vals, timestamp : Ts]
GetMetricCalls == [op : {"get_metric"}, run : RunIds, key : Keys]
GetMetricHistoryCalls == [op : {"get_metric_history"}, run : RunIds, key : Keys]
LogParamCalls == [op : {"log_param"}, run : RunIds, key : Keys, value : Vals]
GetParamCalls == [op : {"get_param"}, run : RunIds, key : Keys]
SetTagCalls == [op : {"set_tag"}, run : RunIds, key : {"k"}, value : {"v"}]
ExperimentIdLists == UNION {[1..n -> ExpIds] : n \in 0..MaxIds}
SearchExpressions == {<<>>} \cup {<<clause>> : clause \in SUBSET RunIds}
SearchRunsCalls ==
    [op : {"search_runs"}, ids : ExperimentIdLists, exprs : SearchExpressions,
     view : ViewTypes]
ListRunInfosCalls == [op : {"list_run_infos"}, exp : ExpIds, view : ViewTypes]

(* The model's bounds on what the tables and the unit of work hold.        *)
WithinBounds(s) ==
    /\ Cardinality(s.tx.exps) + Len(InsOf(s.pend.ins, "exp")) <= MaxExps
    /\ s.uid <= MaxRuns
    /\ Len(s.tx.tags) + Len(InsOf(s.pend.ins, "tag")) <= MaxTags

Quiet == \A t \in Threads : th[t].pc = "idle"

----------------------------------------------------------------------------
(* One caller: every call runs from its first statement to its last before *)
(* the next one starts.                                                    *)

Call(call) ==
    \E r \in {Exec(St, call)} :
        /\ WithinBounds(r)
        /\ db' = r.db /\ tx' = r.tx /\ pend' = r.pend /\ sess' = r.sess /\ uid' = r.uid
        /\ th' = th

CreateExperiment == \E c \in CreateExperimentCalls : /\ Quiet /\ Call(c)
ListExperiments == \E c \in ListExperimentsCalls : /\ Quiet /\ Call(c)
GetExperiment == \E c \in GetExperimentCalls : /\ Quiet /\ Call(c)
DeleteExperiment == \E c \in DeleteExperimentCalls : /\ Quiet /\ Call(c)
RestoreExperiment == \E c \in RestoreExperimentCalls : /\ Quiet /\ Call(c)
RenameExperiment == \E c \in RenameExperimentCalls : /\ Quiet /\ Call(c)
CreateRun == \E c \in CreateRunCalls : /\ Quiet /\ Call(c)
UpdateRunInfo == \E c \in UpdateRunInfoCalls : /\ Quiet /\ Call(c)
GetRun == \E c \in GetRunCalls : /\ Quiet /\ Call(c)
RestoreRun == \E c \in RestoreRunCalls : /\ Quiet /\ Call(c)
DeleteRun == \E c \in DeleteRunCalls : /\ Quiet /\ Call(c)
LogMetric == \E c \in LogMetricCalls : /\ Quiet /\ Call(c)
GetMetric == \E c \in GetMetricCalls : /\ Quiet /\ Call(c)
GetMetricHistory == \E c \in GetMetricHistoryCalls : /\ Quiet /\ Call(c)
LogParam == \E c \in LogParamCalls : /\ Quiet /\ Call(c)
GetParam == \E c \in GetParamCalls : /\ Quiet /\ Call(c)
SetTag == \E c \in SetTagCalls : /\ Quiet /\ Call(c)
SearchRuns == \E c \in SearchRunsCalls : /\ Quiet /\ Call(c)
ListRunInfos == \E c \in ListRunInfosCalls : /\ Quiet /\ Call(c)

(* __init__: empty tables, a fresh session.                                *)
Init ==
    /\ db = EmptyTables
    /\ tx = EmptyTables
    /\ pend = NoPend
    /\ sess = "active"
    /\ uid = 0
    /\ th = [t \in Threads |-> Idle]

Next ==
    \/ CreateExperiment
    \/ ListExperiments
    \/ GetExperiment
    \/ DeleteExperiment
    \/ RestoreExperiment
    \/ RenameExperiment
    \/ CreateRun
    \/ UpdateRunInfo
    \/ GetRun
    \/ RestoreRun
    \/ DeleteRun
    \/ LogMetric
    \/ GetMetric
    \/ GetMetricHistory
    \/ LogParam
    \/ GetParam
    \/ SetTag
    \/ SearchRuns
    \/ ListRunInfos

Spec == Init /\ [][Next]_vars

----------------------------------------------------------------------------
(* Several callers on the one store, and so on its one session: the store  *)
(* takes no lock, so the statements of two calls interleave.  The callers  *)
(* start from a store that uninterrupted calls have filled; each then      *)
(* makes one call, on ids that an earlier call has returned to it.         *)

SetupCalls ==
    {c \in CreateExperimentCalls : c.name = "a"}
    \cup {c \in CreateRunCalls : c.exp = 1 /\ c.tags = <<>> /\ c.parent = "" /\ c.name = ""}
    \cup {c \in LogMetricCalls : c.key = 1 /\ c.value = 1 /\ c.timestamp = 1}
    \cup {c \in LogParamCalls : c.key = 1 /\ c.value = 1}
    \cup DeleteRunCalls

ConcCalls ==
    {c \in CreateExperimentCalls : c.name = "b"}
    \cup {c \in CreateRunCalls : c.exp = 1 /\ c.tags = <<>> /\ c.parent = "" /\ c.name = ""}
    \cup {c \in UpdateRunInfoCalls : c.end = 1}
    \cup DeleteRunCalls
    \cup {c \in LogMetricCalls : c.key = 1 /\ c.timestamp = 1}
    \cup {c \in LogParamCalls : c.key = 1}
    \cup SetTagCalls

(* The ids a call names are ids of committed rows.                         *)
Known(c) ==
    /\ ("run" \in DOMAIN c => \E r \in db.runs : r.id = c.run)
    /\ ("exp" \in DOMAIN c => \E e \in db.exps : e.id = c.exp)
    /\ ("id" \in DOMAIN c => \E e \in db.exps : e.id = c.id)

Become(r) ==
    /\ WithinBounds(r)
    /\ db' = r.db /\ tx' = r.tx /\ pend' = r.pend /\ sess' = r.sess /\ uid' = r.uid
    /\ th' = r.th

Setup == \E c \in SetupCalls : /\ Quiet /\ Call(c)

BeginCall ==
    \E t \in Threads : \E c \in ConcCalls :
        /\ th[t].pc = "idle"
        /\ (t # T0 => th[T0].pc # "idle")
        /\ Known(c)
        /\ \E r \in {Begin(St, t, c)} : Become(r)

StepCall ==
    \E t \in Threads :
        /\ th[t].pc \notin {"idle", "done"}
        /\ \E r \in {Step(St, t)} : Become(r)

NextConc == Setup \/ BeginCall \/ StepCall

SpecConc == Init /\ [][NextConc]_vars

----------------------------------------------------------------------------
(* The claims.  A claim about what a call does is stated of every          *)
(* reachable state: the call is run from that state (Exec) and its outcome *)
(* and the rows it leaves are compared with what the claim says.           *)

Returned(o) == o.exc = "none"

Failed(o, code) == o.exc = "MlflowException" /\ o.code = code

Named(tbl, n) == {e \in tbl.exps : e.name = n}

At(metrics, run, key, timestamp) ==
    {m \in metrics : m.run = run /\ m.key = key /\ m.timestamp = timestamp}

CreateExperimentCall(n) == [op |-> "create_experiment", name |-> n, loc |-> "s3"]
DeleteExperimentCall(id) == [op |-> "delete_experiment", id |-> id]
RestoreExperimentCall(id) == [op |-> "restore_experiment", id |-> id]
GetExperimentCall(id) == [op |-> "get_experiment", id |-> id]
LogMetricCall(run, key, value, timestamp) ==
    [op |-> "log_metric", run |-> run, key |-> key, value |-> value, timestamp |-> timestamp]
LogParamCall(run, key, value) ==
    [op |-> "log_param", run |-> run, key |-> key, value |-> value]
GetParamCall(run, key) == [op |-> "get_param", run |-> run, key |-> key]
DeleteRunCall(run) == [op |-> "delete_run", run |-> run]

ActiveRuns == {r \in db.runs : r.stage = ACTIVE}

(* ---- C1 ---- *)

(* Two callers whose create_experiment calls, of the same name, interleave *)
(* in any way (one after the other included): one gets the id, the other   *)
(* the RESOURCE_ALREADY_EXISTS failure, and one experiment has the name.   *)
(* Under SpecConc the name callers create with is free when they start.    *)
C1_Interleaved ==
    \A n \in Names :
        (\A t \in Threads : /\ th[t].pc = "done"
                            /\ th[t].call = CreateExperimentCall(n))
        => /\ \E t, u \in Threads : /\ t # u
                                    /\ Returned(th[t].out)
                                    /\ Failed(th[u].out, "RESOURCE_ALREADY_EXISTS")
           /\ Cardinality(Named(db, n)) = 1

(* One caller, the second call after the first, from a state where the     *)
(* name is free; and the same with the first experiment deleted between    *)
(* the two calls.                                                          *)
C1_Sequential ==
    \A n \in Names :
        (Quiet /\ Named(db, n) = {} /\ Cardinality(db.exps) < MaxExps)
        => \A s1 \in {Exec(St, CreateExperimentCall(n))} :
             /\ Returned(s1.th[T0].out)
             /\ \A s2 \in {Exec(s1, CreateExperimentCall(n)),
                           Exec(Exec(s1, DeleteExperimentCall(s1.th[T0].out.val)),
                                CreateExperimentCall(n))} :
                  /\ Failed(s2.th[T0].out, "RESOURCE_ALREADY_EXISTS")
                  /\ Cardinality(Named(s2.db, n)) = 1

(* C1: creating two experiments with the same name, by calls that run one  *)
(* after the other or interleave, yields exactly one success and one       *)
(* RESOURCE_ALREADY_EXISTS failure and leaves exactly one experiment with  *)
(* that name, also when the first experiment has been deleted since.       *)
C1_Original == C1_Interleaved /\ C1_Sequential

(* ---- C2 ---- *)

(* C2: params are write-once.  For every stored param of an ACTIVE run, a  *)
(* log_param of the same key with another value fails with an error that   *)
(* reports the stored value and the attempted one, and get_param still     *)
(* returns the stored value afterwards.                                    *)
C2_Original ==
    \A p \in db.params : \A v \in Vals \ {p.value} :
        RunOf(db, p.run).stage = ACTIVE
        => \A s1 \in {Exec(St, LogParamCall(p.run, p.key, v))} :
             /\ s1.th[T0].out.exc = "MlflowException"
             /\ s1.th[T0].out.old = p.value
             /\ s1.th[T0].out.new = v
             /\ \A o \in {OutOf(s1, GetParamCall(p.run, p.key))} :
                  /\ Returned(o)
                  /\ o.val.value = p.value

(* ---- C3 ---- *)

(* C3: a log_param on an ACTIVE run that repeats the key and value of a    *)
(* stored param returns without error and leaves the param rows as they    *)
(* were.                                                                   *)
C3_Original ==
    \A p \in db.params :
        RunOf(db, p.run).stage = ACTIVE
        => \A s1 \in {Exec(St, LogParamCall(p.run, p.key, p.value))} :
             /\ Returned(s1.th[T0].out)
             /\ s1.db.params = db.params
             /\ s1.tx.params = db.params

(* ---- C4 ---- *)

(* The conflict log_metric reports: the stored value and its timestamp.    *)
MetricConflict(o, value, timestamp) ==
    /\ o.exc = "MlflowException"
    /\ o.msg = "metric_must_be_unique"
    /\ o.old = value
    /\ o.new = timestamp

(* The (run, key, timestamp) triples of ACTIVE runs that hold no metric.   *)
FreeTriples ==
    {c \in [run : {r.id : r \in ActiveRuns}, key : Keys, timestamp : Ts] :
        At(db.metrics, c.run, c.key, c.timestamp) = {}}

(* C4 as the spec has it: the same metric logged twice on an ACTIVE run.   *)
(* The first call succeeds, the second fails with the conflict that        *)
(* reports the logged value and timestamp, and one row holds the triple.   *)
C4_Original ==
    \A c \in FreeTriples : \A v \in Vals :
        \A s1 \in {Exec(St, LogMetricCall(c.run, c.key, v, c.timestamp))} :
            /\ Returned(s1.th[T0].out)
            /\ \A s2 \in {Exec(s1, LogMetricCall(c.run, c.key, v, c.timestamp))} :
                 /\ MetricConflict(s2.th[T0].out, v, c.timestamp)
                 /\ Cardinality(At(s2.db.metrics, c.run, c.key, c.timestamp)) = 1

(* C4 as the code has it.  On a usable session the first call stores the   *)
(* row and returns; the second call, with the same value, returns without  *)
(* error and stores nothing; a call with another value for the triple is   *)
(* the one that fails, with INVALID_PARAMETER_VALUE and the stored value   *)
(* and timestamp, and stores nothing.  On a session that a failed commit   *)
(* has left inactive every one of these calls raises InvalidRequestError   *)
(* and stores nothing.  No triple ever has two rows.                       *)
C4_Amended ==
    \A c \in FreeTriples : \A v \in Vals :
        \A s1 \in {Exec(St, LogMetricCall(c.run, c.key, v, c.timestamp))} :
            IF sess = "active"
            THEN /\ Returned(s1.th[T0].out)
                 /\ s1.db.metrics = db.metrics \cup
                      {[run |-> c.run, key |-> c.key, value |-> v,
                        timestamp |-> c.timestamp]}
                 /\ \A s2 \in {Exec(s1, LogMetricCall(c.run, c.key, v, c.timestamp))} :
                      /\ Returned(s2.th[T0].out)
                      /\ s2.db = s1.db
                      /\ s2.sess = "active"
                 /\ \A w \in Vals \ {v} :
                      \A s2 \in {Exec(s1, LogMetricCall(c.run, c.key, w, c.timestamp))} :
                          /\ MetricConflict(s2.th[T0].out, v, c.timestamp)
                          /\ s2.th[T0].out.code = "INVALID_PARAMETER_VALUE"
                          /\ s2.db = s1.db
                          /\ s2.sess = "active"
            ELSE /\ s1.th[T0].out.exc = "InvalidRequestError"
                 /\ s1.db = db
                 /\ \A s2 \in {Exec(s1, LogMetricCall(c.run, c.key, v, c.timestamp))} :
                      /\ s2.th[T0].out.exc = "InvalidRequestError"
                      /\ s2.db = db

(* The same metric can be logged twice, and the second call returns.       *)
C4_Witness ==
    \E c \in FreeTriples : \E v \in Vals :
        /\ sess = "active"
        /\ \E s1 \in {Exec(St, LogMetricCall(c.run, c.key, v, c.timestamp))} :
             /\ At(s1.db.metrics, c.run, c.key, c.timestamp) # {}
             /\ Returned(OutOf(s1, LogMetricCall(c.run, c.key, v, c.timestamp)))

(* ---- C5 ---- *)

(* C5 as the spec has it: once a metric exists, logging the same triple    *)
(* with the same value again returns without error and leaves the metric   *)
(* rows unchanged.                                                         *)
C5_Original ==
    \A m \in db.metrics :
        \A s1 \in {Exec(St, LogMetricCall(m.run, m.key, m.value, m.timestamp))} :
            /\ Returned(s1.th[T0].out)
            /\ s1.db.metrics = db.metrics

(* C5 as the code has it: the re-submission never changes a stored row,    *)
(* and it returns without error exactly when the run is ACTIVE and the     *)
(* session usable.  On a DELETED run it fails the must-be-active check     *)
(* (an MlflowException without an error code); on a session that a failed  *)
(* commit has left inactive it raises InvalidRequestError.                 *)
C5_Amended ==
    \A m \in db.metrics :
        \A s1 \in {Exec(St, LogMetricCall(m.run, m.key, m.value, m.timestamp))} :
            /\ s1.db = db
            /\ s1.tx = tx
            /\ CASE sess # "active" -> s1.th[T0].out.exc = "InvalidRequestError"
                 [] RunOf(db, m.run).stage = ACTIVE -> Returned(s1.th[T0].out)
                 [] OTHER -> /\ Failed(s1.th[T0].out, INTERNAL_ERROR)
                             /\ s1.th[T0].out.msg = "run_must_be_active"

(* A stored metric of an ACTIVE run is logged again, and nothing changes.   *)
C5_Witness ==
    /\ sess = "active"
    /\ \E m \in db.metrics :
         /\ RunOf(db, m.run).stage = ACTIVE
         /\ \E s1 \in {Exec(St, LogMetricCall(m.run, m.key, m.value, m.timestamp))} :
              Returned(s1.th[T0].out) /\ s1.db = db

(* ---- C6 ---- *)

(* C6: metrics are append-only.  In every reachable state no (run, key,    *)
(* timestamp) has two rows; no log_metric call removes or changes a stored *)
(* row; and a log_metric on an ACTIVE run with another value for a stored  *)
(* triple fails as the conflict and stores nothing.                        *)
C6_Original ==
    /\ \A m, o \in db.metrics : MetricKey(m) = MetricKey(o) => m = o
    /\ \A c \in LogMetricCalls : db.metrics \subseteq Exec(St, c).db.metrics
    /\ \A m \in db.metrics : \A v \in Vals \ {m.value} :
         RunOf(db, m.run).stage = ACTIVE
         => \A s1 \in {Exec(St, LogMetricCall(m.run, m.key, v, m.timestamp))} :
              /\ MetricConflict(s1.th[T0].out, m.value, m.timestamp)
              /\ s1.db.metrics = db.metrics

(* ---- C7 ---- *)

(* C7 as the spec has it: delete_run on a DELETED run fails with           *)
(* RESOURCE_DOES_NOT_EXIST and the run stays DELETED.                      *)
C7_Original ==
    \A r \in db.runs :
        r.stage = DELETED
        => \A s1 \in {Exec(St, DeleteRunCall(r.id))} :
             /\ Failed(s1.th[T0].out, "RESOURCE_DOES_NOT_EXIST")
             /\ RunOf(s1.db, r.id).stage = DELETED

(* C7 as the code has it: delete_run on a DELETED run fails and the run    *)
(* stays DELETED, but the lookup is by id alone and finds the run; the     *)
(* failure is that of the must-be-active check, an MlflowException without *)
(* an error code, not RESOURCE_DOES_NOT_EXIST.  On a session that a failed *)
(* commit has left inactive the failure is InvalidRequestError.            *)
C7_Amended ==
    \A r \in db.runs :
        r.stage = DELETED
        => \A s1 \in {Exec(St, DeleteRunCall(r.id))} :
             /\ s1.db = db
             /\ s1.tx = tx
             /\ RunOf(s1.db, r.id).stage = DELETED
             /\ IF sess = "active"
                THEN /\ Failed(s1.th[T0].out, INTERNAL_ERROR)
                     /\ s1.th[T0].out.msg = "run_must_be_active"
                     /\ Returned(_get_run(St, r.id).out)
                ELSE s1.th[T0].out.exc = "InvalidRequestError"

(* A DELETED run on a usable session, whose delete_run fails.              *)
C7_Witness ==
    /\ sess = "active"
    /\ \E r \in db.runs :
         /\ r.stage = DELETED
         /\ ~Returned(OutOf(St, DeleteRunCall(r.id)))

(* ---- C8 ---- *)

(* C8: for every ACTIVE experiment, delete_experiment followed by          *)
(* restore_experiment leaves it ACTIVE with the id, name and artifact      *)
(* location it had, and so does doing the two again.  On a usable session  *)
(* both calls return, the experiment is DELETED in between, and            *)
(* get_experiment then shows the experiment as it was.                     *)
C8_RoundTrip ==
    \A e \in db.exps :
        e.stage = ACTIVE
        => \A s1 \in {Exec(St, DeleteExperimentCall(e.id))} :
           \A s2 \in {Exec(s1, RestoreExperimentCall(e.id))} :
           \A s4 \in {Exec(Exec(s2, DeleteExperimentCall(e.id)),
                           RestoreExperimentCall(e.id))} :
             /\ {x \in s2.db.exps : x.id = e.id} = {e}
             /\ {x \in s4.db.exps : x.id = e.id} = {e}
             /\ (sess = "active"
                 => /\ Returned(s1.th[T0].out)
                    /\ ExpOf(s1.db, e.id) = [e EXCEPT !.stage = DELETED]
                    /\ Returned(s2.th[T0].out)
                    /\ OutOf(s2, GetExperimentCall(e.id)).val = e
                    /\ Returned(s4.th[T0].out))

(* An ACTIVE experiment that delete_experiment deletes and                 *)
(* restore_experiment brings back.                                         *)
C8_Witness ==
    \E e \in db.exps :
        /\ e.stage = ACTIVE
        /\ \E s1 \in {Exec(St, DeleteExperimentCall(e.id))} :
             /\ ExpOf(s1.db, e.id).stage = DELETED
             /\ ExpOf(Exec(s1, RestoreExperimentCall(e.id)).db, e.id) = e

(* ---- C9 ---- *)

(* C9: rename_experiment on a DELETED experiment fails with INVALID_STATE, *)
(* and get_experiment and list_experiments show the old name afterwards.   *)
C9_Original ==
    \A e \in db.exps : \A n \in Names :
        e.stage = DELETED
        => \A s1 \in {Exec(St, [op |-> "rename_experiment", id |-> e.id, name |-> n])} :
             /\ Failed(s1.th[T0].out, "INVALID_STATE")
             /\ \A o \in {OutOf(s1, GetExperimentCall(e.id))} :
                  /\ Returned(o)
                  /\ o.val.name = e.name
             /\ \A o \in {OutOf(s1, [op |-> "list_experiments", view |-> "ALL"])} :
                  /\ Returned(o)
                  /\ \E x \in o.val : x.id = e.id /\ x.name = e.name

(* ---- C10 ---- *)

(* C10: create_run on a DELETED experiment fails with INVALID_STATE and    *)
(* creates no run row and no tag row.                                      *)
C10_Original ==
    \A e \in db.exps : \A c \in CreateRunCalls :
        (e.stage = DELETED /\ c.exp = e.id)
        => \A s1 \in {Exec(St, c)} :
             /\ Failed(s1.th[T0].out, "INVALID_STATE")
             /\ s1.db.runs = db.runs
             /\ s1.db.tags = db.tags
             /\ s1.pend = pend

(* ---- C11 ---- *)

(* The calls that are neither delete_experiment nor restore_experiment.    *)
OtherThanStageCalls ==
    CreateExperimentCalls \cup ListExperimentsCalls \cup GetExperimentCalls
    \cup RenameExperimentCalls \cup CreateRunCalls \cup UpdateRunInfoCalls
    \cup GetRunCalls \cup RestoreRunCalls \cup DeleteRunCalls \cup LogMetricCalls
    \cup GetMetricCalls \cup GetMetricHistoryCalls \cup LogParamCalls
    \cup GetParamCalls \cup SetTagCalls \cup SearchRunsCalls \cup ListRunInfosCalls

StageOf(tbl, id) == ExpOf(tbl, id).stage

(* C11: delete_experiment on a DELETED experiment and restore_experiment   *)
(* on an ACTIVE one fail with RESOURCE_DOES_NOT_EXIST and leave the stage  *)
(* as it is; delete_experiment changes a stage only from ACTIVE to         *)
(* DELETED, restore_experiment only from DELETED to ACTIVE, and no other   *)
(* call changes the stage of an experiment.                                *)
C11_Original ==
    \A e \in db.exps :
        /\ \A s1 \in {Exec(St, IF e.stage = DELETED THEN DeleteExperimentCall(e.id)
                               ELSE RestoreExperimentCall(e.id))} :
             /\ Failed(s1.th[T0].out, "RESOURCE_DOES_NOT_EXIST")
             /\ StageOf(s1.db, e.id) = e.stage
        /\ \A c \in DeleteExperimentCalls :
             StageOf(Exec(St, c).db, e.id) # e.stage
             => c.id = e.id /\ e.stage = ACTIVE
        /\ \A c \in RestoreExperimentCalls :
             StageOf(Exec(St, c).db, e.id) # e.stage
             => c.id = e.id /\ e.stage = DELETED
        /\ \A c \in OtherThanStageCalls : StageOf(Exec(St, c).db, e.id) = e.stage

(* ---- C12 ---- *)

(* The calls that write to run run_uuid.                                   *)
RunWriteCalls(run_uuid) ==
    {c \in UpdateRunInfoCalls \cup LogMetricCalls \cup LogParamCalls \cup SetTagCalls :
        c.run = run_uuid}

(* C12: on a DELETED run each of update_run_info, log_metric, log_param    *)
(* and set_tag fails, and the failed call leaves the run's status, end     *)
(* time, stage, metrics, params and tags (every stored row, and the        *)
(* session's unit of work) as they were.                                   *)
C12_Frame ==
    \A r \in db.runs :
        r.stage = DELETED
        => \A c \in RunWriteCalls(r.id) :
             \A s1 \in {Exec(St, c)} :
                 /\ ~Returned(s1.th[T0].out)
                 /\ s1.db = db
                 /\ s1.tx = tx
                 /\ s1.pend = pend

(* A DELETED run on a usable session: its writes fail the stage check.     *)
C12_Witness ==
    /\ sess = "active"
    /\ \E r \in db.runs :
         /\ r.stage = DELETED
         /\ \A c \in RunWriteCalls(r.id) : Failed(OutOf(St, c), INTERNAL_ERROR)
         /\ \E c \in RunWriteCalls(r.id) : c.op = "set_tag"

(* ---- C13 ---- *)

(* C13: search_runs with no search expression, given ids of stored         *)
(* experiments, returns for each id exactly the runs of that experiment    *)
(* whose stage is in the stage set of the view, whatever the stage of the  *)
(* experiment.                                                             *)
C13_Original ==
    \A c \in SearchRunsCalls :
        (c.exprs = <<>> /\ \A i \in 1..Len(c.ids) : \E e \in db.exps : e.id = c.ids[i])
        => \A o \in {OutOf(St, c)} :
             /\ Returned(o)
             /\ o.val = [i \in 1..Len(c.ids) |->
                           {r \in db.runs : /\ r.exp = c.ids[i]
                                            /\ r.stage \in view_type_to_stages(c.view)}]

(* ---- C14 ---- *)

(* C14: get_metric(run, key) returns the stored metric of that run and key *)
(* with the greatest timestamp, and fails with RESOURCE_DOES_NOT_EXIST     *)
(* exactly when no metric of that run and key is stored.                   *)
C14_Original ==
    \A c \in GetMetricCalls :
        \A o \in {OutOf(St, c)} :
            IF \E m \in db.metrics : m.run = c.run /\ m.key = c.key
            THEN /\ Returned(o)
                 /\ o.val \in db.metrics
                 /\ o.val.run = c.run
                 /\ o.val.key = c.key
                 /\ \A m \in db.metrics :
                      (m.run = c.run /\ m.key = c.key) => m.timestamp <= o.val.timestamp
            ELSE Failed(o, "RESOURCE_DOES_NOT_EXIST")

(* ---- C15 ---- *)

(* C15: rename_experiment of an ACTIVE experiment to the name of another   *)
(* experiment (ACTIVE or DELETED) fails with RESOURCE_ALREADY_EXISTS,      *)
(* changes no experiment's name and leaves the store serving later calls   *)
(* (get_experiment and list_experiments return); and in every reachable    *)
(* state no two experiments share a name.                                  *)
C15_Original ==
    /\ \A e, o \in db.exps : e.name = o.name => e = o
    /\ \A e, o \in db.exps :
         (e.stage = ACTIVE /\ o.id # e.id)
         => \A s1 \in {Exec(St, [op |-> "rename_experiment", id |-> e.id,
                                 name |-> o.name])} :
              /\ Failed(s1.th[T0].out, "RESOURCE_ALREADY_EXISTS")
              /\ s1.db.exps = db.exps
              /\ Returned(OutOf(s1, GetExperimentCall(e.id)))
              /\ Returned(OutOf(s1, [op |-> "list_experiments", view |-> "ALL"]))

(* ---- C16 ---- *)

(* The steps of caller t, in a log_metric or log_param whose insert raised *)
(* an IntegrityError, are as the conflict protocol says: the commit that   *)
(* fails leaves the stored rows as they were; the except clause rolls the  *)
(* session back (usable, nothing pending) before the recovery read; and    *)
(* the recovery read ends the call in an MlflowException, the conflict     *)
(* (INVALID_PARAMETER_VALUE) or the generic failure (INTERNAL_ERROR).      *)
ConflictProtocol(t) ==
    th[t].call.op \in {"log_metric", "log_param"}
    => /\ (th[t].pc = "commit" /\ th'[t].pc = "except") => db' = db
       /\ (th[t].pc = "except" /\ th'[t].pc # "except")
          => th'[t].pc = "reread" /\ sess' = "active" /\ pend' = NoPend
       /\ (th[t].pc = "reread" /\ th'[t].pc # "reread")
          => \/ Failed(th'[t].out, "INVALID_PARAMETER_VALUE")
             \/ Failed(th'[t].out, INTERNAL_ERROR)

(* C16: in log_metric and log_param, whenever the insert raises an         *)
(* integrity conflict, the rollback comes before the recovery read, the    *)
(* call ends in a classified MlflowException and never in the raw          *)
(* IntegrityError, and the failed insert leaves no row.                    *)
C16_Original == [][\A t \in Threads : ConflictProtocol(t)]_vars

(* ---- C17 ---- *)

(* The rows a returned log_metric or log_param call c was to leave stored. *)
Logged(tbl, c) ==
    IF c.op = "log_metric"
    THEN {m \in tbl.metrics : /\ m.run = c.run /\ m.key = c.key
                              /\ m.value = c.value /\ m.timestamp = c.timestamp}
    ELSE {q \in tbl.params : q.run = c.run /\ q.key = c.key /\ q.value = c.value}

(* C17: calls stay atomic when callers share the store.  No commit or      *)
(* rollback of one caller persists or discards part of another caller's    *)
(* call: the committed rows never hold a run with update_run_info's status *)
(* and not its end time (a run is RUNNING exactly while it has no end      *)
(* time), and a log_metric or log_param that returned has its row stored   *)
(* (no rollback discarded its pending insert).                             *)
C17_Original ==
    /\ \A r \in db.runs : (r.status = "RUNNING") <=> (r.end = 0)
    /\ \A t \in Threads :
         (/\ th[t].pc = "done"
          /\ th[t].call.op \in {"log_metric", "log_param"}
          /\ Returned(th[t].out))
         => Logged(db, th[t].call) # {}

(* ---- C18 ---- *)

(* What is stored of run run_uuid: its row (stage, status, end time) and   *)
(* its metrics, params and tags.                                           *)
Written(tbl, run_uuid) ==
    [run |-> {r \in tbl.runs : r.id = run_uuid},
     metrics |-> {m \in tbl.metrics : m.run = run_uuid},
     params |-> {q \in tbl.params : q.run = run_uuid},
     tags |-> SelectSeq(tbl.tags, LAMBDA x : x.run = run_uuid)]

(* C18: however delete_run interleaves with log_metric, log_param, set_tag *)
(* and update_run_info on the same run, no step commits a metric, param,   *)
(* tag, status or end time of a run that is committed DELETED before the   *)
(* step and still DELETED after it.                                        *)
C18_Original ==
    [][\A r \in db.runs :
         (r.stage = DELETED /\ \E q \in db'.runs : q.id = r.id /\ q.stage = DELETED)
         => Written(db', r.id) = Written(db, r.id)]_vars

(* ---- C19 ---- *)

(* C19: two callers log the same param key with the same value on the same *)
(* ACTIVE run, in any interleaving, the key holding no other value: both   *)
(* calls return without error, exactly one row of that key is stored, and  *)
(* neither caller is told that a param value was being changed.            *)
C19_Original ==
    \A c \in LogParamCalls :
        (/\ \A t \in Threads : th[t].pc = "done" /\ th[t].call = c
         /\ \E r \in db.runs : r.id = c.run /\ r.stage = ACTIVE
         /\ \A q \in db.params : (q.run = c.run /\ q.key = c.key) => q.value = c.value)
        => /\ \A t \in Threads : Returned(th[t].out)
           /\ \A t \in Threads : th[t].out.msg # "changing_param_value"
           /\ Cardinality(Logged(db, c)) = 1

(* ---- C20 ---- *)

(* The write call w finds no stored metric of its (run, key, timestamp),   *)
(* and no stored param of its (run, key), with another value.              *)
Unopposed(w) ==
    /\ w.op = "log_metric"
       => \A m \in At(db.metrics, w.run, w.key, w.timestamp) : m.value = w.value
    /\ w.op = "log_param"
       => \A q \in db.params : (q.run = w.run /\ q.key = w.key) => q.value = w.value

(* C20: delete_experiment and restore_experiment change nothing but the    *)
(* stage of their experiment: every run, metric, param and tag and every   *)
(* other experiment is stored as before; and an ACTIVE run of a DELETED    *)
(* experiment accepts update_run_info, set_tag, and every log_metric and   *)
(* log_param that no stored value opposes.                                 *)
C20_Original ==
    \A e \in db.exps :
        /\ \A c \in {DeleteExperimentCall(e.id), RestoreExperimentCall(e.id)} :
             \A s1 \in {Exec(St, c)} :
                 /\ [s1.db EXCEPT !.exps = {}] = [db EXCEPT !.exps = {}]
                 /\ {[x EXCEPT !.stage = ACTIVE] : x \in s1.db.exps}
                    = {[x EXCEPT !.stage = ACTIVE] : x \in db.exps}
                 /\ \A x \in s1.db.exps : x.id # e.id => x \in db.exps
        /\ e.stage = DELETED
           => \A r \in db.runs :
                (r.exp = e.id /\ r.stage = ACTIVE)
                => \A w \in RunWriteCalls(r.id) :
                     Unopposed(w) => Returned(OutOf(St, w))

====
